---- MODULE Spec2Model ----
(***************************************************************************)
(* Text2Excel: the text normalizer (utils/text_extractor.py,               *)
(* normalize_text), the paragraph-aware chunker (utils/parser.py,          *)
(* preprocess_and_chunk), the per-chunk extraction loop                    *)
(* (parse_key_value_pairs, extract_with_gemini, convert_to_three_columns)  *)
(* and the Streamlit page (app.py): the extraction run over the uploaded   *)
(* files, the data editor and the export (generate_excel, to_csv).         *)
(*                                                                         *)
(* A text is a sequence of one-character strings.  Python's 0-based        *)
(* indices are kept (para_idx, paragraph_index); a TLA+ sequence holds     *)
(* element i of a Python list at position i + 1.                           *)
(***************************************************************************)
EXTENDS Integers, Sequences, FiniteSets, TLC

VARIABLES
    text,            \* the text handed to the chunker / to parse_key_value_pairs
    doc_id,          \* document identifier ("D1", "D2", ...), as characters
    chunk_size,      \* preprocess_and_chunk's chunk_size parameter
    chunks,          \* the list preprocess_and_chunk returned
    pc,              \* position of the running operation
    idx,             \* parse_key_value_pairs: number of chunks already processed
    all_extractions, \* parse_key_value_pairs: records aggregated so far
    calls,           \* chunk numbers (1-based) the capability was invoked for, in order
    responses,       \* what the capability answered, in call order
    final_rows,      \* the value parse_key_value_pairs returned (NoRows before a return)
    error,           \* the exception parse_key_value_pairs raised ("none" if none)
    uploaded_files,  \* app.py: names of the uploaded files, in upload order
    file_idx,        \* app.py: number of files the running extraction has processed
    all_data,        \* app.py: rows the running extraction has collected
    session,         \* st.session_state: processed flag and extracted_data
    excel_out,       \* the table written into the spreadsheet offered for download
    csv_out,         \* the table written into the CSV offered for download
    app_error,       \* whether the last script run reported an error
    n_edits,         \* edits made in the data editor since the last extraction
    exception,       \* the exception the last extraction run raised ("none" if none)
    session_before,  \* st.session_state as it was when Extract Data was clicked
    run_log,         \* per file the running extraction processed: what it was given
                     \* and what parse_key_value_pairs returned
    normalized,      \* normalize_text(text)
    renormalized     \* normalize_text(normalize_text(text))

chunkVars == <<text, doc_id, chunk_size, chunks>>
parseVars == <<idx, all_extractions, calls, responses, final_rows, error>>
appVars   == <<uploaded_files, file_idx, all_data, session, excel_out, csv_out,
               app_error, n_edits, exception, session_before, run_log>>
normVars  == <<normalized, renormalized>>
vars      == <<text, doc_id, chunk_size, chunks, pc, idx, all_extractions, calls,
               responses, final_rows, error, uploaded_files, file_idx, all_data,
               session, excel_out, csv_out, app_error, n_edits, exception,
               session_before, run_log, normalized, renormalized>>

----------------------------------------------------------------------------
(* Bounds of the model *)

NL == "\n"
SP == " "
TAB == "\t"
CR == "\r"
\* a control character that is not printable (form feed)
FF == "\f"
\* characters outside ASCII, named by their code points: the combining acute
\* accent, the letter a with acute, and the full-width letter a
Acute == "U+0301"
AAcute == "U+00E1"
FullA == "U+FF41"

\* number of pieces a chunker input text is assembled from
MaxPieces == 7
\* chunk_size ranges over 1..MaxChunkSize (the code's default, 2000, scaled down)
MaxChunkSize == 3

\* number of paragraphs of a document handed to parse_key_value_pairs
MaxDocParas == 3

\* number of records handed to convert_to_three_columns
MaxRecords == 2

\* length of a raw text handed to normalize_text
MaxRawLen == 4

\* number of files uploaded to the page
MaxFiles == 2
\* number of edits made in the data editor after an extraction
MaxEdits == 1

\* Pieces chunker input texts are assembled from: a one-letter and a two-letter
\* word, a blank-line separator, and a space followed by a single newline
Pieces == {<<"a">>, <<"b", "b">>, <<NL, NL>>, <<SP, NL>>}

----------------------------------------------------------------------------
(* Characters and Python string primitives *)

\* the characters str.strip() removes, among those a text here is made of
Whitespace == {NL, SP, TAB, CR, FF}

\* the separator of text.split('\n\n') and of '\n\n'.join(...)
ParaSep == <<NL, NL>>

\* the elements of a sequence
Range(q) == { q[i] : i \in 1..Len(q) }

\* str.lstrip()
RECURSIVE LStrip(_)
LStrip(s) ==
    IF s # <<>> /\ Head(s) \in Whitespace THEN LStrip(Tail(s)) ELSE s

\* str.rstrip()
RECURSIVE RStrip(_)
RStrip(s) ==
    IF s # <<>> /\ s[Len(s)] \in Whitespace
    THEN RStrip(SubSeq(s, 1, Len(s) - 1))
    ELSE s

\* str.strip()
Strip(s) == RStrip(LStrip(s))

\* position of the first "\n\n" in s at or after position i, 0 if there is none
RECURSIVE FindSep(_, _)
FindSep(s, i) ==
    IF i + 1 > Len(s) THEN 0
    ELSE IF s[i] = NL /\ s[i + 1] = NL THEN i
    ELSE FindSep(s, i + 1)

\* s.split('\n\n'): the parts between non-overlapping separators, left to right
RECURSIVE SplitParas(_)
SplitParas(s) ==
    LET i == FindSep(s, 1)
    IN  IF i = 0 THEN <<s>>
        ELSE <<SubSeq(s, 1, i - 1)>> \o SplitParas(SubSeq(s, i + 2, Len(s)))

\* '\n\n'.join(ps)
RECURSIVE JoinParas(_)
JoinParas(ps) ==
    IF ps = <<>> THEN <<>>
    ELSE IF Len(ps) = 1 THEN ps[1]
    ELSE ps[1] \o ParaSep \o JoinParas(Tail(ps))

\* [p.strip() for p in parts if p.strip()]
RECURSIVE StripNonEmpty(_)
StripNonEmpty(parts) ==
    IF parts = <<>> THEN <<>>
    ELSE LET p == Strip(Head(parts))
         IN  (IF p # <<>> THEN <<p>> ELSE <<>>) \o StripNonEmpty(Tail(parts))

\* the paragraph list of preprocess_and_chunk: text is already stripped
Paragraphs(t) == StripNonEmpty(SplitParas(t))

----------------------------------------------------------------------------
(* normalize_text (utils/text_extractor.py) *)

\* unicodedata.normalize('NFKC', text), on the characters of the model: the
\* full-width letter is replaced by its compatibility equivalent, then a
\* letter a directly followed by the combining acute accent is composed
CompatMap(c) == IF c = FullA THEN "a" ELSE c

RECURSIVE Compose(_)
Compose(s) ==
    IF s = <<>> THEN <<>>
    ELSE IF Len(s) >= 2 /\ s[1] = "a" /\ s[2] = Acute
         THEN <<AAcute>> \o Compose(SubSeq(s, 3, Len(s)))
         ELSE <<Head(s)>> \o Compose(Tail(s))

NFKC(s) == Compose([i \in 1..Len(s) |-> CompatMap(s[i])])

\* char.isprintable() or char in '\n\t\r'
Kept(c) == c # FF

\* ''.join(char for char in text if char.isprintable() or char in '\n\t\r')
RECURSIVE RemoveControl(_)
RemoveControl(s) ==
    IF s = <<>> THEN <<>>
    ELSE (IF Kept(Head(s)) THEN <<Head(s)>> ELSE <<>>) \o RemoveControl(Tail(s))

\* text.replace('\r\n', '\n').replace('\r', '\n')
RECURSIVE ReplaceCRLF(_)
ReplaceCRLF(s) ==
    IF s = <<>> THEN <<>>
    ELSE IF Len(s) >= 2 /\ s[1] = CR /\ s[2] = NL
         THEN <<NL>> \o ReplaceCRLF(SubSeq(s, 3, Len(s)))
         ELSE <<Head(s)>> \o ReplaceCRLF(Tail(s))

ReplaceCR(s) == [i \in 1..Len(s) |-> IF s[i] = CR THEN NL ELSE s[i]]

NormalizeNewlines(s) == ReplaceCR(ReplaceCRLF(s))

\* length of the longest prefix of s made of characters of the set cs
RECURSIVE RunLen(_, _)
RunLen(s, cs) ==
    IF s # <<>> /\ Head(s) \in cs THEN 1 + RunLen(Tail(s), cs) ELSE 0

\* text.split('\n')
RECURSIVE SplitLines(_)
SplitLines(s) ==
    LET n == RunLen(s, {c \in Range(s) : c # NL})
    IN  IF n = Len(s) THEN <<s>>
        ELSE <<SubSeq(s, 1, n)>> \o SplitLines(SubSeq(s, n + 2, Len(s)))

\* '\n'.join(lines)
RECURSIVE JoinLines(_)
JoinLines(lines) ==
    IF lines = <<>> THEN <<>>
    ELSE IF Len(lines) = 1 THEN lines[1]
    ELSE lines[1] \o <<NL>> \o JoinLines(Tail(lines))

\* re.sub(r'[ \t]+', ' ', line)
RECURSIVE CollapseSpaces(_)
CollapseSpaces(s) ==
    LET n == RunLen(s, {SP, TAB})
    IN  IF s = <<>> THEN <<>>
        ELSE IF n > 0 THEN <<SP>> \o CollapseSpaces(SubSeq(s, n + 1, Len(s)))
        ELSE <<Head(s)>> \o CollapseSpaces(Tail(s))

\* re.sub(r'[ \t]+', ' ', line.strip())
CleanLine(line) == CollapseSpaces(Strip(line))

\* re.sub(r'\n{3,}', '\n\n', text)
RECURSIVE CollapseNewlines(_)
CollapseNewlines(s) ==
    LET n == RunLen(s, {NL})
    IN  IF s = <<>> THEN <<>>
        ELSE IF n >= 3 THEN <<NL, NL>> \o CollapseNewlines(SubSeq(s, n + 1, Len(s)))
        ELSE IF n > 0 THEN SubSeq(s, 1, n) \o CollapseNewlines(SubSeq(s, n + 1, Len(s)))
        ELSE <<Head(s)>> \o CollapseNewlines(Tail(s))

\* normalize_text(text)
NormalizeText(t) ==
    LET composed == NFKC(t)
        printable == RemoveControl(composed)
        unix == NormalizeNewlines(printable)
        lines == SplitLines(unix)
        cleaned == [i \in 1..Len(lines) |-> CleanLine(lines[i])]
    IN  Strip(CollapseNewlines(JoinLines(cleaned)))

----------------------------------------------------------------------------
(* preprocess_and_chunk *)

\* the chunk dictionary appended to chunks
MakeChunk(current_chunk, d, paragraph_start_index, char_offset) ==
    [text            |-> JoinParas(current_chunk),
     doc_id          |-> d,
     paragraph_index |-> paragraph_start_index,
     offset          |-> char_offset]

\* the loop's local variables before the first paragraph
LoopInit ==
    [chunks |-> <<>>, current_chunk |-> <<>>, current_length |-> 0,
     char_offset |-> 0, paragraph_start_index |-> 0]

\* mutant: the overlap buffer is indexed as if it started at the new paragraph
OverlapStartIndexAtCurrent(para_idx) == para_idx

\* paragraph_start_index of the buffer seeded with the overlap paragraph
OverlapStartIndex(para_idx) == para_idx - 1

\* mutant: the first paragraph of the closed buffer is kept instead of the last
AfterCloseKeepsFirst(st, para_idx) ==
    IF Len(st.current_chunk) > 1
    THEN [st EXCEPT !.current_chunk = <<st.current_chunk[1]>>,
                    !.current_length = Len(st.current_chunk[1]),
                    !.paragraph_start_index = OverlapStartIndex(para_idx)]
    ELSE [st EXCEPT !.current_chunk = <<>>,
                    !.current_length = 0,
                    !.paragraph_start_index = para_idx]

\* the buffer after a chunk was closed: the last paragraph is kept for overlap
\* when the closed buffer held more than one paragraph, else it starts empty
AfterClose(st, para_idx) ==
    IF Len(st.current_chunk) > 1
    THEN [st EXCEPT !.current_chunk = <<st.current_chunk[Len(st.current_chunk)]>>,
                    !.current_length = Len(st.current_chunk[Len(st.current_chunk)]),
                    !.paragraph_start_index = OverlapStartIndex(para_idx)]
    ELSE [st EXCEPT !.current_chunk = <<>>,
                    !.current_length = 0,
                    !.paragraph_start_index = para_idx]

\* mutant: the length of the paragraph about to be added is not counted
MustCloseIgnoringNew(st, para_len, cs) ==
    st.current_length > cs /\ st.current_chunk # <<>>

\* mutant: the buffer may grow one character beyond chunk_size
MustCloseWithSlack(st, para_len, cs) ==
    st.current_length + para_len > cs + 1 /\ st.current_chunk # <<>>

\* the condition under which the loop closes the current chunk
MustClose(st, para_len, cs) ==
    st.current_length + para_len > cs /\ st.current_chunk # <<>>

\* mutant: the length of the buffer is recorded instead of the running total
ChunkOffsetOfBuffer(st) == st.current_length

\* the offset recorded in a chunk closed inside the loop or after it
ChunkOffset(st) == st.char_offset

\* mutant: the paragraph that closes a chunk is not added to the next buffer
LoopBodySkipsOnClose(st, para_idx, para, d, cs) ==
    LET para_len == Len(para)
    IN  IF MustClose(st, para_len, cs)
        THEN [AfterClose(
                [st EXCEPT !.chunks =
                    Append(st.chunks,
                           MakeChunk(st.current_chunk, d,
                                     st.paragraph_start_index, ChunkOffset(st)))],
                para_idx)
              EXCEPT !.char_offset = st.char_offset + para_len + 2]
        ELSE [st EXCEPT !.current_chunk = Append(st.current_chunk, para),
                        !.current_length = st.current_length + para_len,
                        !.char_offset = st.char_offset + para_len + 2]

\* one iteration of "for para_idx, para in enumerate(paragraphs)"
LoopBody(st, para_idx, para, d, cs) ==
    LET para_len == Len(para)
        closed ==
            IF MustClose(st, para_len, cs)
            THEN AfterClose(
                   [st EXCEPT !.chunks =
                       Append(st.chunks,
                              MakeChunk(st.current_chunk, d,
                                        st.paragraph_start_index, ChunkOffset(st)))],
                   para_idx)
            ELSE st
    IN  [closed EXCEPT !.current_chunk = Append(closed.current_chunk, para),
                       !.current_length = closed.current_length + para_len,
                       !.char_offset = closed.char_offset + para_len + 2]

\* the loop over paragraphs para_idx .. len(paragraphs) - 1
RECURSIVE ChunkLoop(_, _, _, _, _)
ChunkLoop(st, para_idx, paragraphs, d, cs) ==
    IF para_idx >= Len(paragraphs) THEN st
    ELSE ChunkLoop(LoopBody(st, para_idx, paragraphs[para_idx + 1], d, cs),
                   para_idx + 1, paragraphs, d, cs)

\* "Add remaining chunk"
AddRemaining(st, d) ==
    IF st.current_chunk # <<>>
    THEN Append(st.chunks,
                MakeChunk(st.current_chunk, d, st.paragraph_start_index, ChunkOffset(st)))
    ELSE st.chunks

\* mutant: the fallback chunk holds the text as it was passed in
PreprocessAndChunkUnstripped(t, d, cs) ==
    LET stripped   == Strip(t)
        paragraphs == Paragraphs(stripped)
        result     == AddRemaining(ChunkLoop(LoopInit, 0, paragraphs, d, cs), d)
    IN  IF result # <<>> THEN result
        ELSE <<[text |-> t, doc_id |-> d, paragraph_index |-> 0, offset |-> 0]>>

\* preprocess_and_chunk(text, doc_id, chunk_size)
PreprocessAndChunk(t, d, cs) ==
    LET stripped   == Strip(t)
        paragraphs == Paragraphs(stripped)
        result     == AddRemaining(ChunkLoop(LoopInit, 0, paragraphs, d, cs), d)
    IN  IF result # <<>> THEN result
        ELSE <<[text |-> stripped, doc_id |-> d, paragraph_index |-> 0, offset |-> 0]>>

----------------------------------------------------------------------------
(* extract_with_gemini: the capability's answer and its decoding *)

\* A decoded JSON value: a list of items, or a value that is not a list.
\* "dict" is a non-empty JSON object, "null" is JSON null.
JList(items) == [t |-> "list", items |-> items]
JNull == [t |-> "null", items |-> <<>>]
JDict == [t |-> "dict", items |-> <<>>]

\* An element of a decoded list: a JSON object (a Python dict, with the fields
\* it has) or a JSON string (a Python str)
Obj(f) == [type |-> "object", fields |-> f]
StrItem == [type |-> "string", fields |-> [text |-> "x"]]

\* Tokens of response.text: a code fence, the word json, whitespace, prose, and
\* a JSON document (which carries its decoded value)
Fence == [tok |-> "fence", val |-> JNull]
JsonTag == [tok |-> "json", val |-> JNull]
Ws == [tok |-> "ws", val |-> JNull]
Prose == [tok |-> "prose", val |-> JNull]
Payload(v) == [tok |-> "payload", val |-> v]

\* response_text.strip()
RECURSIVE LStripWs(_)
LStripWs(ts) == IF ts # <<>> /\ Head(ts) = Ws THEN LStripWs(Tail(ts)) ELSE ts

RECURSIVE RStripWs(_)
RStripWs(ts) ==
    IF ts # <<>> /\ ts[Len(ts)] = Ws THEN RStripWs(SubSeq(ts, 1, Len(ts) - 1)) ELSE ts

StripWs(ts) == RStripWs(LStripWs(ts))

\* position of the first code fence in ts at or after i, 0 if there is none
RECURSIVE FindFence(_, _)
FindFence(ts, i) ==
    IF i > Len(ts) THEN 0
    ELSE IF ts[i] = Fence THEN i
    ELSE FindFence(ts, i + 1)

\* response_text.split(fence)[1]: what stands between the first fence and the
\* second (or the end); called only when the text starts with a fence
SecondPart(ts) ==
    LET rest == Tail(ts)
        j    == FindFence(rest, 1)
    IN  IF j = 0 THEN rest ELSE SubSeq(rest, 1, j - 1)

\* "Remove markdown code blocks if present"
Unfence(ts) ==
    LET stripped == StripWs(ts)
    IN  IF stripped # <<>> /\ Head(stripped) = Fence
        THEN LET part == SecondPart(stripped)
             IN  StripWs(IF part # <<>> /\ Head(part) = JsonTag THEN Tail(part) ELSE part)
        ELSE stripped

\* json.loads: a single JSON document, surrounding whitespace allowed; anything
\* else (the empty text too) raises JSONDecodeError
Decodable(ts) == Len(StripWs(ts)) = 1 /\ StripWs(ts)[1].tok = "payload"
Decoded(ts) == StripWs(ts)[1].val

\* Python truthiness of a decoded value ("not extractions")
Truthy(v) == IF v.t = "list" THEN v.items # <<>> ELSE v.t = "dict"

\* the exceptions extract_with_gemini and parse_key_value_pairs raise
ErrNoKey == "ValueError: Google Gemini API key is required"
ErrDecode == "ValueError: Failed to parse JSON response from Gemini API"
ErrApiKey == "ValueError: Invalid Gemini API key"
ErrInvalidArg == "ValueError: Invalid API request"
ErrCallFailed == "Exception: Gemini API call failed"

\* the "except Exception" handler: the message decides what is raised
WrapException(msg) ==
    IF msg = "API key not valid" \/ msg = "API_KEY_INVALID" THEN ErrApiKey
    ELSE IF msg = "INVALID_ARGUMENT" THEN ErrInvalidArg
    ELSE ErrCallFailed

\* str(n) for n >= 0
Digit(n) == <<"0", "1", "2", "3", "4", "5", "6", "7", "8", "9">>[n + 1]

RECURSIVE IntToStr(_)
IntToStr(n) == IF n < 10 THEN <<Digit(n)>> ELSE IntToStr(n \div 10) \o <<Digit(n % 10)>>

\* f"{doc_id}:{paragraph_index}:0-{len(chunk_text)}"
DefaultProvenance(chunk) ==
    chunk.doc_id \o <<":">> \o IntToStr(chunk.paragraph_index) \o
    <<":", "0", "-">> \o IntToStr(Len(chunk.text))

\* ':' in s
HasColon(s) == \E i \in 1..Len(s) : s[i] = ":"

\* "not item.get('provenance') or ':' not in item.get('provenance', '')"
NeedsDefaultProvenance(f) ==
    \/ "provenance" \notin DOMAIN f
    \/ f.provenance = <<>>
    \/ ~HasColon(f.provenance)

\* item['provenance'] = default
SetProvenance(f, p) ==
    [k \in DOMAIN f \cup {"provenance"} |-> IF k = "provenance" THEN p ELSE f[k]]

\* the body of "for item in extractions"
BackFill(item, chunk) ==
    IF NeedsDefaultProvenance(item.fields)
    THEN Obj(SetProvenance(item.fields, DefaultProvenance(chunk)))
    ELSE item

\* item.get(...) raises AttributeError on an element that is not a dict
AllObjects(items) == \A i \in 1..Len(items) : items[i].type = "object"

\* "if not extractions or not isinstance(extractions, list)"
EmptyOrInvalid(v) == ~Truthy(v) \/ v.t # "list"

\* what extract_with_gemini does with a decoded value
Validate(v, chunk) ==
    IF EmptyOrInvalid(v) THEN [raised |-> "none", records |-> <<>>]
    ELSE IF ~AllObjects(v.items)
         THEN [raised |-> WrapException("'str' object has no attribute 'get'"),
               records |-> <<>>]
    ELSE [raised |-> "none",
          records |-> [i \in 1..Len(v.items) |-> BackFill(v.items[i], chunk)]]

\* extract_with_gemini(chunk_text, doc_id, paragraph_index, char_offset, ...)
\* given what the capability did: raised an exception, or answered with text
ExtractWithGemini(chunk, outcome) ==
    IF outcome.kind = "exception"
    THEN [raised |-> WrapException(outcome.msg), records |-> <<>>]
    ELSE LET response_text == Unfence(outcome.tokens)
         IN  IF ~Decodable(response_text)
             THEN [raised |-> ErrDecode, records |-> <<>>]
             ELSE Validate(Decoded(response_text), chunk)

----------------------------------------------------------------------------
(* convert_to_three_columns *)

\* item.get(k, default)
Get(f, k, default) == IF k \in DOMAIN f THEN f[k] ELSE default

ThreeColumns(item) ==
    [key      |-> Get(item.fields, "key", "unknown_key"),
     value    |-> Get(item.fields, "value", ""),
     comments |-> Get(item.fields, "comments", "")]

\* mutant: a record without a key yields no row
RECURSIVE ConvertSkipsKeyless(_)
ConvertSkipsKeyless(extractions) ==
    IF extractions = <<>> THEN <<>>
    ELSE (IF "key" \in DOMAIN Head(extractions).fields
          THEN <<ThreeColumns(Head(extractions))>> ELSE <<>>)
         \o ConvertSkipsKeyless(Tail(extractions))

ConvertToThreeColumns(extractions) ==
    [i \in 1..Len(extractions) |-> ThreeColumns(extractions[i])]

----------------------------------------------------------------------------
(* parse_key_value_pairs *)

\* mutant: the chunk's records are put in front of the aggregated ones
ExtendFront(acc, extracted) == extracted \o acc

\* all_extractions.extend(extracted)
Extend(acc, extracted) == acc \o extracted

\* mutant: an exception of extract_with_gemini is caught per chunk and the
\* loop goes on with the next chunk
AfterExtractSwallows(result, acc, i) ==
    IF result.raised # "none"
    THEN [pc |-> "loop", idx |-> i + 1, acc |-> acc, error |-> "none"]
    ELSE [pc |-> "loop", idx |-> i + 1, acc |-> Extend(acc, result.records),
          error |-> "none"]

\* the loop after extract_with_gemini returned or raised for chunk i + 1: an
\* exception leaves the loop and the function, a result is aggregated
AfterExtract(result, acc, i) ==
    IF result.raised # "none"
    THEN [pc |-> "raised", idx |-> i, acc |-> acc, error |-> result.raised]
    ELSE [pc |-> "loop", idx |-> i + 1, acc |-> Extend(acc, result.records),
          error |-> "none"]

\* "for chunk_data in chunks" from chunk st.idx + 1 on, the capability
\* answering chunk k with outcomes[k]
RECURSIVE ExtractLoop(_, _, _)
ExtractLoop(cks, outcomes, st) ==
    IF st.pc # "loop" \/ st.idx >= Len(cks) THEN st
    ELSE ExtractLoop(cks, outcomes,
                     AfterExtract(ExtractWithGemini(cks[st.idx + 1], outcomes[st.idx + 1]),
                                  st.acc, st.idx))

\* parse_key_value_pairs(text, api_key, ..., doc_id) with a non-empty api_key,
\* as a whole: the rows it returns, or the exception it raises
ParseKeyValuePairs(t, d, cs, outcomes) ==
    LET cks == PreprocessAndChunk(t, d, cs)
        st  == ExtractLoop(cks, outcomes,
                           [pc |-> "loop", idx |-> 0, acc |-> <<>>, error |-> "none"])
    IN  IF st.pc = "raised"
        THEN [raised |-> st.error, rows |-> <<>>]
        ELSE [raised |-> "none", rows |-> ConvertToThreeColumns(st.acc)]

----------------------------------------------------------------------------
(* Values the variables of an operation hold while it is not running *)

NoRows == [returned |-> FALSE, rows |-> <<>>]
EmptyTable == [columns |-> <<>>, rows |-> <<>>]
NoArtifact == [header |-> FALSE, columns |-> <<>>, rows |-> <<>>]

ParseIdle ==
    /\ idx = 0
    /\ all_extractions = <<>>
    /\ calls = <<>>
    /\ responses = <<>>
    /\ final_rows = NoRows
    /\ error = "none"

AppIdle ==
    /\ uploaded_files = <<>>
    /\ file_idx = 0
    /\ all_data = <<>>
    /\ session = [processed |-> FALSE, extracted_data |-> EmptyTable]
    /\ excel_out = NoArtifact
    /\ csv_out = NoArtifact
    /\ app_error = FALSE
    /\ n_edits = 0
    /\ exception = "none"
    /\ session_before = [processed |-> FALSE, extracted_data |-> EmptyTable]
    /\ run_log = <<>>

NormIdle ==
    /\ normalized = <<>>
    /\ renormalized = <<>>

----------------------------------------------------------------------------
(* The chunker alone: preprocess_and_chunk applied to every bounded text *)

RECURSIVE Flatten(_)
Flatten(ss) == IF ss = <<>> THEN <<>> ELSE Head(ss) \o Flatten(Tail(ss))

Texts == { Flatten(ps) : ps \in UNION { [1..n -> Pieces] : n \in 0..MaxPieces } }

DocIds == { <<"D", "1">>, <<"D", "2">> }

ChunkInit ==
    /\ text \in Texts
    /\ doc_id = <<"D", "1">>
    /\ chunk_size \in 1..MaxChunkSize
    /\ chunks = <<>>
    /\ pc = "start"
    /\ ParseIdle
    /\ AppIdle
    /\ NormIdle

\* a call of preprocess_and_chunk(text, doc_id, chunk_size)
Chunk ==
    /\ pc = "start"
    /\ chunks' = PreprocessAndChunk(text, doc_id, chunk_size)
    /\ pc' = "chunked"
    /\ UNCHANGED <<text, doc_id, chunk_size>>
    /\ UNCHANGED parseVars
    /\ UNCHANGED appVars
    /\ UNCHANGED normVars

ChunkNext == Chunk

ChunkSpec == ChunkInit /\ [][ChunkNext]_vars

----------------------------------------------------------------------------
(* The projection alone: convert_to_three_columns applied to every bounded
   sequence of records, each record holding any subset of its fields *)

\* a record holds any subset of key, value and comments, and either all or
\* none of the fields the projection drops
NoField == [k \in {} |-> ""]
Optional(k, values) == {NoField} \cup { k :> v : v \in values }
DroppedFields == {"raw_value", "provenance", "confidence"}
Dropped == [raw_value |-> "Alice ", provenance |-> "D1:0:0-5", confidence |-> "0.9"]
ProjRecords ==
    { Obj(a @@ b @@ c @@ d) : a \in Optional("key", {"name", "age"}),
                              b \in Optional("value", {"Alice"}),
                              c \in Optional("comments", {"c1"}),
                              d \in {NoField, Dropped} }
RecordLists == UNION { [1..n -> ProjRecords] : n \in 0..MaxRecords }

ProjInit ==
    /\ text = <<>>
    /\ doc_id = <<"D", "1">>
    /\ chunk_size = 1
    /\ chunks = <<>>
    /\ pc = "records"
    /\ idx = 0
    /\ all_extractions \in RecordLists
    /\ calls = <<>>
    /\ responses = <<>>
    /\ final_rows = NoRows
    /\ error = "none"
    /\ AppIdle
    /\ NormIdle

\* a call of convert_to_three_columns(all_extractions)
Project ==
    /\ pc = "records"
    /\ final_rows' = [returned |-> TRUE, rows |-> ConvertToThreeColumns(all_extractions)]
    /\ pc' = "projected"
    /\ UNCHANGED <<idx, all_extractions, calls, responses, error>>
    /\ UNCHANGED chunkVars
    /\ UNCHANGED appVars
    /\ UNCHANGED normVars

ProjNext == Project

ProjSpec == ProjInit /\ [][ProjNext]_vars

----------------------------------------------------------------------------
(* The normalizer alone: normalize_text applied to every bounded raw text, and
   applied again to its own result *)

RawChars == {"a", SP, TAB, CR, NL, FF, Acute, FullA}
RawTexts == UNION { [1..n -> RawChars] : n \in 0..MaxRawLen }

NormInit ==
    /\ text \in RawTexts
    /\ doc_id = <<"D", "1">>
    /\ chunk_size = 1
    /\ chunks = <<>>
    /\ pc = "raw"
    /\ ParseIdle
    /\ AppIdle
    /\ NormIdle

\* a call of normalize_text(text)
Normalize ==
    /\ pc = "raw"
    /\ normalized' = NormalizeText(text)
    /\ pc' = "normalized"
    /\ UNCHANGED renormalized
    /\ UNCHANGED chunkVars
    /\ UNCHANGED parseVars
    /\ UNCHANGED appVars

\* a call of normalize_text on the result of the first call
NormalizeAgain ==
    /\ pc = "normalized"
    /\ renormalized' = NormalizeText(normalized)
    /\ pc' = "renormalized"
    /\ UNCHANGED normalized
    /\ UNCHANGED chunkVars
    /\ UNCHANGED parseVars
    /\ UNCHANGED appVars

NormNext == Normalize \/ NormalizeAgain

NormSpec == NormInit /\ [][NormNext]_vars

----------------------------------------------------------------------------
(* parse_key_value_pairs on bounded documents, the capability answering each
   call with one of a set of representative outcomes *)

\* documents: up to MaxDocParas paragraphs joined by blank lines
ParaPool == { <<"a">>, <<"b", "b">> }
ParseTexts == { JoinParas(ps) : ps \in UNION { [1..n -> ParaPool] : n \in 0..MaxDocParas } }

\* records the capability returns (without provenance), and provenance values
NameRec == [key |-> "name", value |-> "Alice", raw_value |-> "Alice",
            comments |-> "c1", confidence |-> "0.95"]
AgeRec == [key |-> "age", value |-> "30", raw_value |-> "30",
           comments |-> "c2", confidence |-> "0.9"]
BareRec == [value |-> "v"]
ProvShaped == <<"D", "1", ":", "0", ":", "1", "-", "2">>
ProvSentence == <<"k", ":", "v">>
ProvNoColon == <<"p">>
ProvEmpty == <<>>

Exc(msg) == [kind |-> "exception", msg |-> msg, tokens |-> <<>>]
Answer(ts) == [kind |-> "text", msg |-> "", tokens |-> ts]

CapabilityOutcomes ==
    { Exc("API key not valid"), Exc("INVALID_ARGUMENT"), Exc("quota exceeded"),
      Answer(<<>>),
      Answer(<<Prose, Payload(JList(<<Obj(SetProvenance(NameRec, ProvShaped))>>))>>),
      Answer(<<Payload(JList(<<>>))>>),
      Answer(<<Payload(JNull)>>),
      Answer(<<Payload(JDict)>>),
      Answer(<<Payload(JList(<<Obj(SetProvenance(NameRec, ProvShaped)), Obj(AgeRec)>>))>>),
      Answer(<<Fence, JsonTag, Ws,
               Payload(JList(<<Obj(SetProvenance(AgeRec, ProvEmpty)),
                               Obj(SetProvenance(NameRec, ProvSentence))>>)),
               Ws, Fence>>),
      Answer(<<Ws, Fence,
               Payload(JList(<<Obj(SetProvenance(BareRec, ProvNoColon))>>)),
               Fence, Ws>>),
      Answer(<<Payload(JList(<<Obj(SetProvenance(NameRec, ProvShaped)), StrItem>>))>>) }

Init ==
    /\ text \in ParseTexts
    /\ doc_id \in DocIds
    /\ chunk_size \in 1..MaxChunkSize
    /\ chunks = <<>>
    /\ pc = "call"
    /\ ParseIdle
    /\ AppIdle
    /\ NormIdle

\* parse_key_value_pairs up to the loop: the api_key check and the chunking
ParseStart ==
    /\ pc = "call"
    /\ \E api_key \in BOOLEAN :
          IF ~api_key
          THEN /\ pc' = "raised"
               /\ error' = ErrNoKey
               /\ UNCHANGED chunks
          ELSE /\ pc' = "loop"
               /\ chunks' = PreprocessAndChunk(text, doc_id, chunk_size)
               /\ UNCHANGED error
    /\ UNCHANGED <<text, doc_id, chunk_size>>
    /\ UNCHANGED <<idx, all_extractions, calls, responses, final_rows>>
    /\ UNCHANGED appVars
    /\ UNCHANGED normVars

\* one iteration of "for chunk_data in chunks": the capability is invoked for
\* the chunk and answers (or raises); the result is aggregated or the
\* exception leaves parse_key_value_pairs
ExtractChunk ==
    /\ pc = "loop"
    /\ idx < Len(chunks)
    /\ \E outcome \in CapabilityOutcomes :
          LET after == AfterExtract(ExtractWithGemini(chunks[idx + 1], outcome),
                                    all_extractions, idx)
          IN  /\ calls' = Append(calls, idx + 1)
              /\ responses' = Append(responses, outcome)
              /\ pc' = after.pc
              /\ idx' = after.idx
              /\ all_extractions' = after.acc
              /\ error' = after.error
    /\ UNCHANGED <<text, doc_id, chunk_size, chunks, final_rows>>
    /\ UNCHANGED appVars
    /\ UNCHANGED normVars

\* after the loop: the projection to three columns and the return
ParseReturn ==
    /\ pc = "loop"
    /\ idx = Len(chunks)
    /\ final_rows' = [returned |-> TRUE, rows |-> ConvertToThreeColumns(all_extractions)]
    /\ pc' = "done"
    /\ UNCHANGED <<text, doc_id, chunk_size, chunks>>
    /\ UNCHANGED <<idx, all_extractions, calls, responses, error>>
    /\ UNCHANGED appVars
    /\ UNCHANGED normVars

Next == ParseStart \/ ExtractChunk \/ ParseReturn

Spec == Init /\ [][Next]_vars

----------------------------------------------------------------------------
(* generate_excel and the page's export section *)

\* [c for c in wanted if c in df.columns]
RECURSIVE KeepPresent(_, _)
KeepPresent(wanted, columns) ==
    IF wanted = <<>> THEN <<>>
    ELSE (IF Head(wanted) \in Range(columns) THEN <<Head(wanted)>> ELSE <<>>)
         \o KeepPresent(Tail(wanted), columns)

\* df[cols]: the table with the columns cols, in that order
SelectColumns(df, cols) ==
    [columns |-> cols,
     rows    |-> [i \in 1..Len(df.rows) |-> [c \in Range(cols) |-> df.rows[i][c]]]]

\* the cells of a table's rows in column order, as a writer puts them out
Cells(df) ==
    [i \in 1..Len(df.rows) |-> [j \in 1..Len(df.columns) |-> df.rows[i][df.columns[j]]]]

\* the columns generate_excel exports
RequiredColumns == <<"key", "value", "comments">>

\* generate_excel(df, include_header, auto_width): the sheet's content
GenerateExcel(df, include_header) ==
    LET export_df == SelectColumns(df, KeepPresent(RequiredColumns, df.columns))
    IN  [header  |-> include_header,
         columns |-> export_df.columns,
         rows    |-> Cells(export_df)]

\* the columns the CSV export writes
CsvColumns(df) == df.columns

\* edited_df.to_csv(index=False)
ToCsv(df) ==
    [header  |-> TRUE,
     columns |-> CsvColumns(df),
     rows    |-> Cells(SelectColumns(df, CsvColumns(df)))]

\* pd.DataFrame(all_data): the columns are the keys of the row dictionaries
DataFrame(rows) ==
    [columns |-> IF rows = <<>> THEN <<>>
                 ELSE <<"key", "value", "comments", "source_file">>,
     rows    |-> rows]

\* "Reorder columns to ensure key, value, comments come first"
ReorderColumns(df) ==
    SelectColumns(df, KeepPresent(<<"key", "value", "comments", "source_file">>,
                                  df.columns))

\* row['source_file'] = file.name
WithSourceFile(row, name) ==
    [c \in DOMAIN row \cup {"source_file"} |->
        IF c = "source_file" THEN name ELSE row[c]]

TagRows(rows, name) == [i \in 1..Len(rows) |-> WithSourceFile(rows[i], name)]

----------------------------------------------------------------------------
(* The page: an upload, the Extract Data button, the data editor and the
   export section, which every script run with processed data renders *)

\* the uploaded files: a name and the raw text of the file's content
Files ==
    { [name |-> "a.txt", raw |-> <<"a">>],
      [name |-> "b.pdf", raw |-> <<"a", CR, NL, CR, NL, "b", "b", SP>>] }
Uploads == UNION { [1..n -> Files] : n \in 1..MaxFiles }

\* f"D{file_idx}"
DocId(i) == <<"D">> \o IntToStr(i)

\* what the capability answers for a chunk on the page: it fails, it answers
\* with an empty list, or with one record whose value is the chunk's text
\* (Word: the text as a cell value)
ErrUnreadable == "the file cannot be read"
Word(t) == IF t = <<"a">> THEN "a" ELSE IF t = <<"b", "b">> THEN "bb" ELSE "other"
EchoRec(chunk) == [key |-> "k", value |-> Word(chunk.text), comments |-> "c"]
PageOutcomes(chunk) ==
    { Exc("quota exceeded"),
      Answer(<<Payload(JList(<<Obj(EchoRec(chunk))>>))>>) }
AllPageOutcomes(cks) == UNION { PageOutcomes(cks[k]) : k \in 1..Len(cks) }
OutcomesFor(cks) ==
    { os \in [1..Len(cks) -> AllPageOutcomes(cks)] :
        \A k \in 1..Len(cks) : os[k] \in PageOutcomes(cks[k]) }

\* mutant: the rows of a file are put in front of the rows collected so far
PrependRows(data, rows, name) == TagRows(rows, name) \o data

\* "for row in rows: row['source_file'] = file.name; all_data.append(row)"
AppendRows(data, rows, name) == data \o TagRows(rows, name)

\* mutant: the except block stores what the run had collected so far
SessionAfterExceptionKeepsRows(sess, data) ==
    [processed |-> TRUE, extracted_data |-> ReorderColumns(DataFrame(data))]

\* st.session_state after the except block: it reports and stores nothing
SessionAfterException(sess, data) == sess

\* the export section for the table the data editor returned
Export(edited_df, include_header) ==
    /\ excel_out' = GenerateExcel(edited_df, include_header)
    /\ csv_out' = ToCsv(edited_df)

\* the part of a script run below "Display results", the editor returning edited_df
Display(processed, edited_df) ==
    IF processed
    THEN \E include_header \in BOOLEAN : Export(edited_df, include_header)
    ELSE UNCHANGED <<excel_out, csv_out>>

AppInit ==
    /\ text = <<>>
    /\ doc_id = <<"D", "1">>
    /\ chunk_size = 1
    /\ chunks = <<>>
    /\ ParseIdle
    /\ NormIdle
    /\ pc = "idle"
    /\ uploaded_files \in Uploads
    /\ file_idx = 0
    /\ all_data = <<>>
    /\ session = [processed |-> FALSE, extracted_data |-> EmptyTable]
    /\ excel_out = NoArtifact
    /\ csv_out = NoArtifact
    /\ app_error = FALSE
    /\ n_edits = 0
    /\ exception = "none"
    /\ session_before = session
    /\ run_log = <<>>

\* the Extract Data button: the run enters the try block with all_data = []
ClickExtract ==
    /\ pc = "idle"
    /\ uploaded_files # <<>>
    /\ pc' = "processing"
    /\ file_idx' = 0
    /\ all_data' = <<>>
    /\ app_error' = FALSE
    /\ exception' = "none"
    /\ session_before' = session
    /\ run_log' = <<>>
    /\ UNCHANGED <<uploaded_files, session, excel_out, csv_out, n_edits>>
    /\ UNCHANGED chunkVars
    /\ UNCHANGED parseVars
    /\ UNCHANGED normVars

\* the except block: the error is reported, and the run goes on to the
\* display section with the session as it is
ReportException(e) ==
    /\ exception' = e
    /\ app_error' = TRUE
    /\ session' = SessionAfterException(session, all_data)
    /\ Display(session'.processed, session'.extracted_data)
    /\ pc' = "idle"
    /\ UNCHANGED <<file_idx, all_data, run_log>>

\* one iteration of "for file_idx, file in enumerate(uploaded_files, start=1)":
\* the file's text is extracted and normalized, parse_key_value_pairs chunks
\* it and calls the capability for each chunk, and the rows are collected
\* under the file's name; an exception leaves the try block
ProcessFile ==
    /\ pc = "processing"
    /\ file_idx < Len(uploaded_files)
    /\ LET file == uploaded_files[file_idx + 1]
           d    == DocId(file_idx + 1)
       IN  /\ doc_id' = d
           /\ \E readable \in BOOLEAN :
                 IF ~readable
                 THEN /\ ReportException(ErrUnreadable)
                      /\ UNCHANGED <<text, chunks>>
                 ELSE LET t   == NormalizeText(file.raw)
                          cks == PreprocessAndChunk(t, d, chunk_size)
                      IN  /\ text' = t
                          /\ chunks' = cks
                          /\ \E outcomes \in OutcomesFor(cks) :
                                LET result == ParseKeyValuePairs(t, d, chunk_size, outcomes)
                                IN  IF result.raised # "none"
                                    THEN ReportException(result.raised)
                                    ELSE /\ all_data' = AppendRows(all_data, result.rows,
                                                                   file.name)
                                         /\ run_log' = Append(run_log,
                                                [doc_id |-> d, name |-> file.name,
                                                 chunks |-> cks, responses |-> outcomes,
                                                 rows |-> result.rows])
                                         /\ file_idx' = file_idx + 1
                                         /\ UNCHANGED <<pc, app_error, exception, session,
                                                        excel_out, csv_out>>
    /\ UNCHANGED <<uploaded_files, n_edits, session_before, chunk_size>>
    /\ UNCHANGED parseVars
    /\ UNCHANGED normVars

\* after the loop: the DataFrame is stored in the session, and the display
\* section shows and exports it
StoreAndShow ==
    /\ pc = "processing"
    /\ file_idx = Len(uploaded_files)
    /\ LET df == ReorderColumns(DataFrame(all_data))
       IN  /\ session' = [processed |-> TRUE, extracted_data |-> df]
           /\ Display(TRUE, df)
    /\ pc' = "idle"
    /\ n_edits' = 0
    /\ UNCHANGED <<uploaded_files, file_idx, all_data, app_error, exception,
                   session_before, run_log>>
    /\ UNCHANGED chunkVars
    /\ UNCHANGED parseVars
    /\ UNCHANGED normVars

\* what one edit in st.data_editor(df, num_rows="dynamic") makes of df: a row
\* deleted, a row added, or a cell changed
DeleteRow(df, i) ==
    [df EXCEPT !.rows = SubSeq(df.rows, 1, i - 1) \o SubSeq(df.rows, i + 1, Len(df.rows))]
AddRow(df) ==
    [df EXCEPT !.rows = Append(df.rows, [c \in Range(df.columns) |-> ""])]
EditCell(df, i, c) ==
    [df EXCEPT !.rows[i][c] = "edited"]
\* the columns whose cells the modelled edits change
EditedColumns == {"value"}
Edits(df) ==
    { DeleteRow(df, i) : i \in 1..Len(df.rows) }
    \cup { AddRow(df) }
    \cup { EditCell(df, i, c) : i \in 1..Len(df.rows),
                                c \in Range(df.columns) \cap EditedColumns }

\* an edit in the data editor: the script reruns, stores the edited table in
\* the session and exports it
EditData ==
    /\ pc = "idle"
    /\ session.processed
    /\ n_edits < MaxEdits
    /\ \E edited_df \in Edits(session.extracted_data) :
          /\ session' = [session EXCEPT !.extracted_data = edited_df]
          /\ Display(TRUE, edited_df)
    /\ n_edits' = n_edits + 1
    /\ app_error' = FALSE
    /\ UNCHANGED <<pc, uploaded_files, file_idx, all_data, exception,
                   session_before, run_log>>
    /\ UNCHANGED chunkVars
    /\ UNCHANGED parseVars
    /\ UNCHANGED normVars

AppNext == ClickExtract \/ ProcessFile \/ StoreAndShow \/ EditData

AppSpec == AppInit /\ [][AppNext]_vars

----------------------------------------------------------------------------
(* Properties of the chunker (checked under ChunkSpec) *)

\* the document's sequence of non-empty paragraphs
DocParas == Paragraphs(Strip(text))

\* the paragraphs a chunk's text holds, as a reader of the chunk finds them
ChunkParas(c) == Paragraphs(c.text)

\* 0-based document index of the last paragraph of chunk k, going by its
\* paragraph_index and the number of paragraphs in its text
LastIndex(k) == chunks[k].paragraph_index + Len(ChunkParas(chunks[k])) - 1

\* chunk k opens with the paragraph the previous chunk ended with (the overlap)
OpensWithOverlap(k) ==
    /\ k > 1
    /\ ChunkParas(chunks[k]) # <<>>
    /\ chunks[k].paragraph_index = LastIndex(k - 1)

\* chunk k's first paragraph has the same text as the previous chunk's last
RepeatsPreviousText(k) ==
    /\ k > 1
    /\ ChunkParas(chunks[k]) # <<>>
    /\ ChunkParas(chunks[k - 1]) # <<>>
    /\ ChunkParas(chunks[k])[1] =
           ChunkParas(chunks[k - 1])[Len(ChunkParas(chunks[k - 1]))]

\* paragraphs of chunks 1..k in emission order, the overlap paragraph dropped
RECURSIVE RebuildByPosition(_)
RebuildByPosition(k) ==
    IF k = 0 THEN <<>>
    ELSE RebuildByPosition(k - 1) \o
         (IF OpensWithOverlap(k) THEN Tail(ChunkParas(chunks[k]))
          ELSE ChunkParas(chunks[k]))

\* the same, a first paragraph dropped whenever its text repeats the previous
\* chunk's last paragraph
RECURSIVE RebuildByText(_)
RebuildByText(k) ==
    IF k = 0 THEN <<>>
    ELSE RebuildByText(k - 1) \o
         (IF RepeatsPreviousText(k) THEN Tail(ChunkParas(chunks[k]))
          ELSE ChunkParas(chunks[k]))

\* C1 (as stated): listing the chunks' paragraphs in emission order and
\* dropping a chunk's first paragraph when it repeats (has the text of) the
\* last paragraph of the previous chunk gives exactly the document's paragraphs.
C1_CoverageByText ==
    pc = "chunked" => RebuildByText(Len(chunks)) = DocParas

\* C1 (amended): listing the chunks' paragraphs in emission order and dropping
\* a chunk's first paragraph when it is the overlap paragraph (the chunk's
\* paragraph_index is the document index of the previous chunk's last
\* paragraph) gives exactly the document's paragraphs, in order.
C1_CoverageByPosition ==
    pc = "chunked" => RebuildByPosition(Len(chunks)) = DocParas

\* C1 witness: three or more paragraphs were chunked into several chunks, one
\* opening with the overlap paragraph and one starting fresh
C1_Witness ==
    /\ pc = "chunked"
    /\ Len(DocParas) >= 3
    /\ \E k \in 2..Len(chunks) : OpensWithOverlap(k)
    /\ \E k \in 2..Len(chunks) : ~OpensWithOverlap(k)

\* character position at which document paragraph i (0-based) begins, counting
\* the 2-character separators
RECURSIVE StartOfParagraph(_)
StartOfParagraph(i) ==
    IF i = 0 THEN 0 ELSE StartOfParagraph(i - 1) + Len(DocParas[i]) + 2

\* C2: the char_offset of every chunk is the character position at which the
\* chunk's first paragraph begins (the running total when its buffer was
\* opened); the first chunk of any document has offset 0.
C2_OffsetIsChunkStart ==
    pc = "chunked" =>
        /\ chunks[1].offset = 0
        /\ \A k \in 1..Len(chunks) :
               ChunkParas(chunks[k]) # <<>> =>
                   chunks[k].offset = StartOfParagraph(chunks[k].paragraph_index)

\* chunk c's text is paragraphs i..j of the document joined by blank lines
IsRunOfParagraphs(c) ==
    \E i \in 1..Len(DocParas) : \E j \in i..Len(DocParas) :
        c.text = JoinParas(SubSeq(DocParas, i, j))

\* C3 (as stated): the text of every emitted chunk is a contiguous run of one
\* or more whole paragraphs of the document.
C3_EveryChunkIsRun ==
    pc = "chunked" => \A k \in 1..Len(chunks) : IsRunOfParagraphs(chunks[k])

\* C3 (amended): for a text that has at least one non-empty paragraph, the
\* text of every emitted chunk is a contiguous run of one or more whole
\* paragraphs of the document, joined by a blank line.
C3_ChunkIsRunOfParagraphs ==
    (pc = "chunked" /\ DocParas # <<>>) =>
        \A k \in 1..Len(chunks) : IsRunOfParagraphs(chunks[k])

\* C3 witness: a chunk of two paragraphs that is neither the start nor the
\* whole of the document
C3_Witness ==
    /\ pc = "chunked"
    /\ Len(DocParas) >= 3
    /\ \E k \in 2..Len(chunks) : Len(ChunkParas(chunks[k])) = 2

\* chunk k holds a paragraph longer than chunk_size
HoldsOversized(k) ==
    \E n \in 1..Len(ChunkParas(chunks[k])) :
        Len(ChunkParas(chunks[k])[n]) > chunk_size

\* C4 (as stated): every chunk that contains a paragraph longer than
\* chunk_size contains that paragraph and no other.
C4_OversizedAlone ==
    pc = "chunked" =>
        \A k \in 1..Len(chunks) :
            HoldsOversized(k) => Len(ChunkParas(chunks[k])) = 1

\* C4 (amended): every chunk that contains a paragraph longer than chunk_size
\* contains at most one other paragraph, and when it contains two its first
\* paragraph is the overlap paragraph carried over from the previous chunk.
C4_OversizedWithOverlapOnly ==
    pc = "chunked" =>
        \A k \in 1..Len(chunks) :
            HoldsOversized(k) =>
                /\ Len(ChunkParas(chunks[k])) <= 2
                /\ Len(ChunkParas(chunks[k])) = 2 => OpensWithOverlap(k)

\* C4 witness: an oversized paragraph emitted in one chunk together with the
\* overlap paragraph carried over from the previous chunk
C4_Witness ==
    /\ pc = "chunked"
    /\ \E k \in 2..Len(chunks) :
           /\ Len(ChunkParas(chunks[k])) = 2
           /\ Len(ChunkParas(chunks[k])[2]) > chunk_size
           /\ OpensWithOverlap(k)

\* C5: the paragraph_index of every chunk is the 0-based document index of the
\* first paragraph the chunk contains: the chunk's text is the document's
\* paragraphs from that index on, as many as the chunk holds.
C5_ParagraphIndexIsFirst ==
    pc = "chunked" =>
        \A k \in 1..Len(chunks) :
            ChunkParas(chunks[k]) # <<>> =>
                /\ chunks[k].paragraph_index \in 0..(Len(DocParas) - 1)
                /\ LastIndex(k) <= Len(DocParas) - 1
                /\ ChunkParas(chunks[k]) =
                       SubSeq(DocParas, chunks[k].paragraph_index + 1, LastIndex(k) + 1)
                /\ k = 1 => chunks[k].paragraph_index = 0
                /\ k > 1 => chunks[k].paragraph_index \in
                                {LastIndex(k - 1), LastIndex(k - 1) + 1}

\* C5 witness: a buffer seeded with the overlap paragraph and a buffer that
\* started empty after a single-paragraph chunk, with paragraphs that differ
C5_Witness ==
    /\ pc = "chunked"
    /\ \E k \in 2..Len(chunks) :
           OpensWithOverlap(k) /\ ChunkParas(chunks[k])[1] # ChunkParas(chunks[k])[2]
    /\ \E k \in 2..Len(chunks) :
           /\ Len(ChunkParas(chunks[k - 1])) = 1
           /\ chunks[k].paragraph_index = LastIndex(k - 1) + 1

\* the text is empty or holds whitespace only
IsBlank(t) == \A i \in 1..Len(t) : t[i] \in {NL, SP}

\* C15: preprocess_and_chunk on an empty or whitespace-only text returns
\* exactly one chunk, whose text is empty, whose paragraph_index is 0 and
\* whose offset is 0.
C15_DegenerateInput ==
    (pc = "chunked" /\ IsBlank(text)) =>
        /\ Len(chunks) = 1
        /\ chunks[1].text = <<>>
        /\ chunks[1].paragraph_index = 0
        /\ chunks[1].offset = 0

\* C15 witness: a text of blanks and newlines, blank lines among them, chunked
C15_Witness ==
    /\ pc = "chunked"
    /\ IsBlank(text)
    /\ Len(text) >= 4
    /\ \E i \in 1..Len(text) : text[i] = SP
    /\ FindSep(text, 1) # 0
    /\ Len(chunks) = 1

\* C16: the offset values of the chunks preprocess_and_chunk returns for one
\* document are non-decreasing along the emitted sequence.
C16_OffsetsNonDecreasing ==
    pc = "chunked" =>
        \A j, k \in 1..Len(chunks) : j < k => chunks[j].offset <= chunks[k].offset

\* C16 witness: three or more chunks, one of them opening with the overlap
\* paragraph and one of them not
C16_Witness ==
    /\ pc = "chunked"
    /\ Len(chunks) >= 3
    /\ \E k \in 2..Len(chunks) : OpensWithOverlap(k)
    /\ \E k \in 2..Len(chunks) : ~OpensWithOverlap(k)
    /\ chunks[1].offset < chunks[Len(chunks)].offset

\* the summed length of the paragraphs of chunk k (separators not counted)
RECURSIVE SumLen(_)
SumLen(ps) == IF ps = <<>> THEN 0 ELSE Len(Head(ps)) + SumLen(Tail(ps))
ParagraphLength(k) == SumLen(ChunkParas(chunks[k]))

\* C17 (as stated): every chunk that contains two or more paragraphs has a
\* summed paragraph length of at most chunk_size; only a chunk consisting of
\* a single oversized paragraph may exceed chunk_size.
C17_SizeBounded ==
    pc = "chunked" =>
        \A k \in 1..Len(chunks) :
            Len(ChunkParas(chunks[k])) >= 2 => ParagraphLength(k) <= chunk_size

\* C17 (amended): a chunk whose summed paragraph length exceeds chunk_size is
\* a single paragraph, or the overlap paragraph carried over from the previous
\* chunk followed by one new paragraph; every other chunk (three or more
\* paragraphs, or two paragraphs the first of which is not an overlap) has a
\* summed paragraph length of at most chunk_size.
C17_SizeBoundedButOverlap ==
    pc = "chunked" =>
        \A k \in 1..Len(chunks) :
            ParagraphLength(k) > chunk_size =>
                \/ Len(ChunkParas(chunks[k])) = 1
                \/ Len(ChunkParas(chunks[k])) = 2 /\ OpensWithOverlap(k)

\* C17 witness: a chunk of two paragraphs, neither longer than chunk_size,
\* that exceeds chunk_size through the overlap paragraph, after a chunk of
\* two paragraphs within chunk_size
C17_Witness ==
    /\ pc = "chunked"
    /\ \E k \in 2..Len(chunks) :
           /\ Len(ChunkParas(chunks[k])) = 2
           /\ OpensWithOverlap(k)
           /\ ~HoldsOversized(k)
           /\ ParagraphLength(k) > chunk_size
           /\ Len(ChunkParas(chunks[k - 1])) >= 2
           /\ ParagraphLength(k - 1) <= chunk_size

----------------------------------------------------------------------------
(* Properties of the extraction loop (checked under Spec) *)

\* the parts of s between occurrences of the character ch
RECURSIVE SplitOn(_, _)
SplitOn(s, ch) ==
    IF \A i \in 1..Len(s) : s[i] # ch THEN <<s>>
    ELSE LET i == CHOOSE n \in 1..Len(s) :
                      s[n] = ch /\ \A m \in 1..(n - 1) : s[m] # ch
         IN  <<SubSeq(s, 1, i - 1)>> \o SplitOn(SubSeq(s, i + 1, Len(s)), ch)

IsDigits(s) ==
    /\ s # <<>>
    /\ \A i \in 1..Len(s) : s[i] \in {"0", "1", "2", "3", "4", "5", "6", "7", "8", "9"}

\* s has the shape doc_id:paragraph_index:char_start-char_end
IsProvenanceShape(s) ==
    LET parts == SplitOn(s, ":")
    IN  /\ Len(parts) = 3
        /\ parts[1] # <<>>
        /\ IsDigits(parts[2])
        /\ LET span == SplitOn(parts[3], "-")
           IN  Len(span) = 2 /\ IsDigits(span[1]) /\ IsDigits(span[2])

\* the capability's k-th answer was text that decodes as JSON
DecodedAt(k) ==
    responses[k].kind = "text" /\ Decodable(Unfence(responses[k].tokens))

ValueAt(k) == Decoded(Unfence(responses[k].tokens))

\* the capability's k-th answer was text that does not decode as JSON
UndecodableAt(k) ==
    responses[k].kind = "text" /\ ~Decodable(Unfence(responses[k].tokens))

\* the k-th answer decoded to a non-empty list of records
WellFormedAt(k) ==
    /\ DecodedAt(k)
    /\ ValueAt(k).t = "list"
    /\ ValueAt(k).items # <<>>
    /\ \A i \in 1..Len(ValueAt(k).items) : ValueAt(k).items[i].type = "object"

\* the k-th answer decoded to something empty or not a well-formed sequence
\* of records: an empty list, a value that is not a list, or a list holding
\* elements that are not records
EmptyOrMalformedAt(k) == DecodedAt(k) /\ ~WellFormedAt(k)

\* the records of the k-th answer, none unless it is well-formed
RecordsAt(k) == IF WellFormedAt(k) THEN ValueAt(k).items ELSE <<>>

\* the call for chunk k raised
RaisedAt(k) == pc = "raised" /\ Len(responses) = k

\* a record with its provenance as the claim C6 describes it after back-fill
ClaimedProvenance(item, chunk) ==
    IF \/ "provenance" \notin DOMAIN item.fields
       \/ ~IsProvenanceShape(item.fields.provenance)
    THEN Obj(SetProvenance(item.fields, DefaultProvenance(chunk)))
    ELSE item

\* the records of answers 1..k, back-filled as C6 describes
RECURSIVE ClaimedExtractions(_)
ClaimedExtractions(k) ==
    IF k = 0 THEN <<>>
    ELSE ClaimedExtractions(k - 1) \o
         [i \in 1..Len(RecordsAt(k)) |->
             ClaimedProvenance(RecordsAt(k)[i], chunks[calls[k]])]

\* C6: after extract_with_gemini returned for a chunk, every returned record
\* has a provenance of the shape doc_id:paragraph_index:char_start-char_end:
\* one that was absent, empty or not of that shape is replaced by
\* <doc_id>:<paragraph_index>:0-<length of the chunk text>, one that has the
\* shape is unchanged.
C6_ProvenanceBackFill ==
    pc \in {"loop", "done"} =>
        /\ all_extractions = ClaimedExtractions(idx)
        /\ \A i \in 1..Len(all_extractions) :
               IsProvenanceShape(all_extractions[i].fields.provenance)

\* number of records answers 1..k hold, an empty or malformed answer counting 0
RECURSIVE RecordCount(_)
RecordCount(k) == IF k = 0 THEN 0 ELSE RecordCount(k - 1) + Len(RecordsAt(k))

\* C7: an empty or malformed decoded response for a chunk is not a failure:
\* extract_with_gemini does not raise for it, it contributes zero records, and
\* parse_key_value_pairs goes on to the next chunk.
C7_MalformedIsNotFailure ==
    \A k \in 1..Len(responses) :
        EmptyOrMalformedAt(k) =>
            /\ ~RaisedAt(k)
            /\ idx >= k
            /\ Len(all_extractions) = RecordCount(idx)

\* C8: if the response for chunk k cannot be decoded as JSON,
\* parse_key_value_pairs raises at chunk k, the capability is never invoked
\* for a chunk after k, and no rows (not even those of the chunks before k)
\* are returned.
C8_DecodeFailureAborts ==
    \A k \in 1..Len(responses) :
        UndecodableAt(k) =>
            /\ pc = "raised"
            /\ error = ErrDecode
            /\ Len(calls) = k
            /\ calls[k] = k
            /\ final_rows = NoRows

\* C8 witness: the second of three or more chunks got an undecodable answer
\* after the first chunk had contributed records
C8_Witness ==
    /\ pc = "raised"
    /\ Len(chunks) >= 3
    /\ Len(responses) = 2
    /\ UndecodableAt(2)
    /\ all_extractions # <<>>

\* a record without its provenance
WithoutProvenance(item) ==
    [k \in DOMAIN item.fields \ {"provenance"} |-> item.fields[k]]

\* the records of answers 1..k in call order, each answer's in its own order
RECURSIVE AnsweredRecords(_)
AnsweredRecords(k) ==
    IF k = 0 THEN <<>> ELSE AnsweredRecords(k - 1) \o RecordsAt(k)

\* C9: in a run in which no call fails the capability is invoked exactly once
\* per chunk, in chunk order, and the aggregated records (and the rows
\* returned) are the per-chunk responses concatenated in chunk order, each
\* chunk's records in the order the capability returned them.
C9_OncePerChunkInOrder ==
    /\ calls = [i \in 1..Len(calls) |-> i]
    /\ Len(responses) = Len(calls)
    /\ pc = "done" =>
          /\ Len(calls) = Len(chunks)
          /\ final_rows.returned
          /\ Len(all_extractions) = Len(AnsweredRecords(Len(responses)))
          /\ Len(final_rows.rows) = Len(AnsweredRecords(Len(responses)))
          /\ \A i \in 1..Len(all_extractions) :
                /\ WithoutProvenance(all_extractions[i]) =
                      WithoutProvenance(AnsweredRecords(Len(responses))[i])
                /\ final_rows.rows[i].value =
                      AnsweredRecords(Len(responses))[i].fields.value

\* C9 witness: a finished run over three or more chunks in which two chunks
\* got different answers of two records each and one got an empty answer
C9_Witness ==
    /\ pc = "done"
    /\ Len(chunks) >= 3
    /\ \E j, k \in 1..Len(responses) :
          /\ j < k
          /\ Len(RecordsAt(j)) = 2
          /\ Len(RecordsAt(k)) = 2
          /\ RecordsAt(j) # RecordsAt(k)
    /\ \E k \in 1..Len(responses) : EmptyOrMalformedAt(k)

----------------------------------------------------------------------------
(* Properties of the export (checked under AppSpec) *)

\* C10: the export artifacts contain only the columns key, value, comments:
\* for a row table that carries a source_file column, neither the spreadsheet
\* produced by generate_excel nor the CSV offered for download contains the
\* source_file column.
C10_NoSourceFileExported ==
    (session.processed /\ "source_file" \in Range(session.extracted_data.columns)) =>
        /\ "source_file" \notin Range(excel_out.columns)
        /\ "source_file" \notin Range(csv_out.columns)

----------------------------------------------------------------------------
(* Properties of an extraction run of the page (checked under AppSpec) *)

\* C11: hard errors propagate with no partial results: when text extraction
\* or a chunk's extraction call raises while a file of the upload is
\* processed, the run stores nothing (the session's extracted_data and
\* processed flag are exactly what they were when the run started, so no row
\* of an earlier file of the failed run is kept), the error is reported, and
\* the run is over.
C11_HardErrorStoresNothing ==
    [][(exception = "none" /\ exception' # "none") =>
          /\ app_error'
          /\ session' = session_before
          /\ pc' = "idle"]_vars

\* C11 witness: a run failed in a capability call for a later file after an
\* earlier file of the same run had produced rows, while the session held the
\* different rows of a previous run
C11_Witness ==
    /\ app_error
    /\ exception = ErrCallFailed
    /\ run_log # <<>>
    /\ all_data # <<>>
    /\ session.processed
    /\ session.extracted_data.rows # <<>>
    /\ session.extracted_data.rows # all_data

\* "D<i>" for a file number of one digit
ExpectedDocId(i) == <<"D", <<"1", "2", "3", "4", "5", "6", "7", "8", "9">>[i]>>

\* the records the capability answered for chunk k of a logged file
AnsweredFor(entry, k) ==
    LET v == Decoded(Unfence(entry.responses[k].tokens))
    IN  IF v.t = "list" THEN v.items ELSE <<>>

\* the rows of a logged file as its chunks' answers give them: chunk by chunk
\* in the order the chunks were processed, each answer in its own order
RECURSIVE RowsOfChunks(_, _)
RowsOfChunks(entry, k) ==
    IF k = 0 THEN <<>>
    ELSE RowsOfChunks(entry, k - 1) \o
         [j \in 1..Len(AnsweredFor(entry, k)) |->
             [key         |-> AnsweredFor(entry, k)[j].fields.key,
              value       |-> AnsweredFor(entry, k)[j].fields.value,
              comments    |-> AnsweredFor(entry, k)[j].fields.comments,
              source_file |-> entry.name]]

\* the number of rows the files before file i of the run contributed
RECURSIVE RowsBefore(_)
RowsBefore(i) ==
    IF i <= 1 THEN 0 ELSE RowsBefore(i - 1) + Len(run_log[i - 1].rows)

\* an extraction run completed and its table was just stored
JustStored ==
    pc = "idle" /\ file_idx = Len(uploaded_files) /\ n_edits = 0

\* C12: for files uploaded in order f1..fn, file i is processed with doc_id
\* "D<i>", and the combined row sequence is the concatenation, in upload
\* order, of each file's rows: the rows of one file are contiguous, keep the
\* order in which the file's chunks were processed, and carry the file's
\* name as source_file; the table stored at the end of the run is that
\* sequence.
C12_MultiDocumentOrdering ==
    /\ pc \in {"processing", "idle"} /\ exception = "none" => Len(run_log) = file_idx
    /\ \A i \in 1..Len(run_log) :
          /\ run_log[i].doc_id = ExpectedDocId(i)
          /\ run_log[i].name = uploaded_files[i].name
          /\ \A k \in 1..Len(run_log[i].chunks) :
                run_log[i].chunks[k].doc_id = ExpectedDocId(i)
          /\ Len(run_log[i].responses) = Len(run_log[i].chunks)
          /\ Len(run_log[i].rows) = Len(RowsOfChunks(run_log[i], Len(run_log[i].chunks)))
          /\ \A r \in 1..Len(run_log[i].rows) :
                all_data[RowsBefore(i) + r] =
                    RowsOfChunks(run_log[i], Len(run_log[i].chunks))[r]
    /\ Len(all_data) = RowsBefore(Len(run_log) + 1)
    /\ JustStored =>
          /\ session.processed
          /\ session.extracted_data.rows = all_data
          /\ session.extracted_data.columns =
                <<"key", "value", "comments", "source_file">>

\* C12 witness: a stored run over two files of different names, the first
\* processed in two chunks with different answers, both contributing rows
C12_Witness ==
    /\ JustStored
    /\ Len(run_log) >= 2
    /\ run_log[1].name # run_log[2].name
    /\ Len(run_log[1].chunks) = 2
    /\ Len(run_log[1].rows) = 2
    /\ run_log[1].rows[1] # run_log[1].rows[2]
    /\ run_log[2].rows # <<>>
    /\ doc_id = ExpectedDocId(Len(uploaded_files))

----------------------------------------------------------------------------
(* Properties of the projection (checked under ProjSpec) *)

\* what C14 says the field k of the row of a record is
ClaimedCell(item, k) ==
    IF k \in DOMAIN item.fields THEN item.fields[k]
    ELSE IF k = "key" THEN "unknown_key" ELSE ""

\* C14: convert_to_three_columns maps a sequence of n records to a sequence
\* of exactly n rows, row i built from record i, each row having exactly the
\* fields key, value, comments (raw_value, provenance and confidence are
\* dropped), key defaulting to "unknown_key" and value and comments to ""
\* when the record lacks them.
C14_ProjectionTotal ==
    pc = "projected" =>
        /\ Len(final_rows.rows) = Len(all_extractions)
        /\ \A i \in 1..Len(all_extractions) :
              /\ DOMAIN final_rows.rows[i] = {"key", "value", "comments"}
              /\ \A k \in {"key", "value", "comments"} :
                    final_rows.rows[i][k] = ClaimedCell(all_extractions[i], k)

\* C14 witness: two records projected to different rows, the first without a
\* key and with the dropped fields, the second without value and comments
C14_Witness ==
    /\ pc = "projected"
    /\ Len(all_extractions) = 2
    /\ "key" \notin DOMAIN all_extractions[1].fields
    /\ DroppedFields \subseteq DOMAIN all_extractions[1].fields
    /\ DOMAIN all_extractions[2].fields = {"key"}
    /\ final_rows.rows[1] # final_rows.rows[2]
    /\ final_rows.rows[1].key = "unknown_key"
    /\ final_rows.rows[2].value = ""

----------------------------------------------------------------------------
(* Properties of the normalizer (checked under NormSpec) *)

\* C13: normalization is idempotent: for every input text t, including text
\* with CR, CRLF, tabs, runs of spaces, control characters and runs of blank
\* lines, normalize_text(normalize_text(t)) equals normalize_text(t).
C13_NormalizeIdempotent ==
    pc = "renormalized" => renormalized = normalized

====
